---- MODULE Spec2Model ----
(***************************************************************************)
(* A model of the ERC-1155 facade of the SDK (pkg/thirdweb/erc1155.go) and *)
(* of the signer state of the ERC-721 module (nftlabs/erc721.go).          *)
(*                                                                         *)
(* One client goroutine issues facade calls one at a time (cpc is its      *)
(* position in the current call).  fetchEditionsByTokenId launches one      *)
(* worker goroutine per element of its input and collects their results    *)
(* over an unbuffered channel; a send and the matching receive are one     *)
(* step (a rendezvous).  The answers of the collaborators (chain reads,    *)
(* storage fetches, transaction submission and confirmation) are inputs    *)
(* of the step that makes the call.                                        *)
(***************************************************************************)
EXTENDS Integers, Sequences, FiniteSets, TLC

\* ------------------------------------------------------------------ bounds
MaxBatch == 3      \* longest token-id list handed to the batch resolver
MaxSupply == 1     \* largest total supply the chain reports
MaxKey == 2        \* number of distinct well-formed private keys
MaxStrLen == 3     \* longest address string a caller passes
AddrLen == 1       \* bytes of an address (common.AddressLength, scaled down)
InputOffset == 5   \* first id of the shifted inputs, e.g. [5,6,7]
MaxTokenId == 1    \* largest id of a single-item call
MaxMintable == 2   \* largest answer of a NextTokenIdToMint read

\* ------------------------------------------------------------- variables
VARIABLES
    privateKey,     \* sdk.privateKey: NoKey (nil) or a key
    signerAddress,  \* sdk.signerAddress
    cpc,            \* position of the calling goroutine
    op,             \* the facade call in progress and its arguments
    ret,            \* what the call has returned
    log,            \* collaborator calls made by the calling goroutine, in order
    txh,            \* the transaction handle the submit returned
    launched,       \* loop variable i of the launch loop
    w,              \* the worker goroutines
    results,        \* the results slice, in arrival order
    own,            \* the locals of a GetOwned call
    prev            \* what the Get call just before returned, for a watched id

vars == <<privateKey, signerAddress, cpc, op, ret, log, txh, launched, w, results,
          own, prev>>

\* ---------------------------------------------------------------- values
NoKey == 0
Keys == 1..MaxKey
KeyStrings == 0..MaxKey          \* 0 stands for a malformed key string

NilErr == [kind |-> "nil", tokenId |-> -1]
NotFoundError(tokenId) == [kind |-> "NotFound", tokenId |-> tokenId]
StoreError == [kind |-> "MetadataUnavailable", tokenId |-> -1]
CallError(k) == [kind |-> k, tokenId |-> -1]

NilMeta == [Id |-> -1]
NilNft == [Metadata |-> NilMeta, Supply |-> -1]
NilTx == 0
NilResult == [nft |-> NilNft, err |-> NilErr]

SupplyOutcomes == {-1} \cup (0..MaxSupply)   \* -1: the read fails

\* --------------------------------------------------------- address strings
Chars == {"0", "a", "x"}
HexDigits == <<"0", "1", "2", "3", "4", "5", "6", "7", "8", "9",
               "a", "b", "c", "d", "e", "f">>
HexValues ==
    [c \in Chars \cup {HexDigits[n] : n \in 1..Len(HexDigits)} |->
        IF \E n \in 1..Len(HexDigits) : HexDigits[n] = c
        THEN (CHOOSE n \in 1..Len(HexDigits) : HexDigits[n] = c) - 1
        ELSE 16]
HexVal(c) == HexValues[c]

RECURSIVE StringsOfLen(_)
StringsOfLen(n) ==
    IF n = 0 THEN {<<>>}
    ELSE {Append(s, c) : s \in StringsOfLen(n - 1), c \in Chars}

AddrStrings == UNION {StringsOfLen(n) : n \in 0..MaxStrLen}

has0xPrefix(s) == Len(s) >= 2 /\ s[1] = "0" /\ s[2] = "x"

\* hex.DecodeString with its error dropped: the bytes decoded before the
\* first character that is no hex digit.
RECURSIVE Hex2Bytes(_)
Hex2Bytes(s) ==
    IF Len(s) < 2 THEN <<>>
    ELSE IF HexVal(s[1]) > 15 \/ HexVal(s[2]) > 15 THEN <<>>
    ELSE <<16 * HexVal(s[1]) + HexVal(s[2])>> \o Hex2Bytes(SubSeq(s, 3, Len(s)))

FromHex(s) ==
    LET t == IF has0xPrefix(s) THEN SubSeq(s, 3, Len(s)) ELSE s
        u == IF Len(t) % 2 = 1 THEN <<"0">> \o t ELSE t
    IN Hex2Bytes(u)

\* Address.SetBytes: keep the last AddrLen bytes, pad with zeros on the left.
BytesToAddress(b) ==
    LET c == IF Len(b) > AddrLen THEN SubSeq(b, Len(b) - AddrLen + 1, Len(b)) ELSE b
    IN [i \in 1..AddrLen |-> IF i <= AddrLen - Len(c) THEN 0 ELSE c[i - (AddrLen - Len(c))]]

HexToAddress(s) == BytesToAddress(FromHex(s))

\* Address.String: 0x and two hex digits a byte (the case of the letters,
\* which parsing ignores, is left out).
RECURSIVE BytesToHex(_)
BytesToHex(b) ==
    IF Len(b) = 0 THEN <<>>
    ELSE <<HexDigits[(Head(b) \div 16) + 1], HexDigits[(Head(b) % 16) + 1]>>
         \o BytesToHex(Tail(b))
AddressString(a) == <<"0", "x">> \o BytesToHex(a)

NoAddr == <<>>
AddressOfKey(k) == [i \in 1..AddrLen |-> IF i = AddrLen THEN k ELSE 0]
ZeroAddress == [i \in 1..AddrLen |-> 0]

\* -------------------------------------------------------- collaborator log
Entry(call, id, a1, a2, ok) ==
    [call |-> call, id |-> id, a1 |-> a1, a2 |-> a2, ok |-> ok, val |-> -1]
\* A read that answers a number: val is the number read.
EntryVal(call, id, val, ok) == [Entry(call, id, NoAddr, NoAddr, ok) EXCEPT !.val = val]

\* ------------------------------------------------- token metadata resolver
fetchTokenMetadata(tokenId, storeOk) ==
    [meta |-> IF storeOk THEN [Id |-> tokenId] ELSE NilMeta,
     err |-> IF storeOk THEN NilErr ELSE StoreError,
     log |-> <<Entry("StorageGet", tokenId, NoAddr, NoAddr, storeOk)>>]

\* A resolver that fetches from the store whatever the URI read answered.
getTokenMetadataNoCheck(tokenId, uriOk, storeOk) ==
    LET uri == <<Entry("Uri", tokenId, NoAddr, NoAddr, uriOk)>>
        f == fetchTokenMetadata(tokenId, storeOk)
    IN [meta |-> f.meta, err |-> f.err, log |-> uri \o f.log]

getTokenMetadata(tokenId, uriOk, storeOk) ==
    LET uri == <<Entry("Uri", tokenId, NoAddr, NoAddr, uriOk)>> IN
    IF ~uriOk
    THEN [meta |-> NilMeta, err |-> NotFoundError(tokenId), log |-> uri]
    ELSE LET f == fetchTokenMetadata(tokenId, storeOk) IN
         [meta |-> f.meta, err |-> f.err, log |-> uri \o f.log]

\* A Get that returns the failure of its total-supply read.
GetStrict(tokenId, supplyOut, uriOk, storeOk) ==
    LET ts == <<EntryVal("TotalSupply", tokenId, supplyOut, supplyOut >= 0)>>
        m == getTokenMetadata(tokenId, uriOk, storeOk)
    IN IF supplyOut < 0
       THEN [nft |-> NilNft, err |-> CallError("CallFailed"), log |-> ts]
       ELSE IF m.err # NilErr
       THEN [nft |-> NilNft, err |-> m.err, log |-> ts \o m.log]
       ELSE [nft |-> [Metadata |-> m.meta, Supply |-> supplyOut], err |-> NilErr,
             log |-> ts \o m.log]

\* A Get that reuses the supply of the Get before it instead of reading it.
GetCachedSupply(tokenId, supplyOut, uriOk, storeOk) ==
    LET cached == prev.id = tokenId
        supply == IF cached THEN prev.supply
                  ELSE IF supplyOut >= 0 THEN supplyOut ELSE 0
        ts == IF cached THEN <<>>
              ELSE <<EntryVal("TotalSupply", tokenId, supplyOut, supplyOut >= 0)>>
        m == getTokenMetadata(tokenId, uriOk, storeOk)
    IN IF m.err # NilErr
       THEN [nft |-> NilNft, err |-> m.err, log |-> ts \o m.log]
       ELSE [nft |-> [Metadata |-> m.meta, Supply |-> supply], err |-> NilErr,
             log |-> ts \o m.log]

Get(tokenId, supplyOut, uriOk, storeOk) ==
    LET supply == IF supplyOut >= 0 THEN supplyOut ELSE 0
        ts == <<EntryVal("TotalSupply", tokenId, supplyOut, supplyOut >= 0)>>
        m == getTokenMetadata(tokenId, uriOk, storeOk)
    IN IF m.err # NilErr
       THEN [nft |-> NilNft, err |-> m.err, log |-> ts \o m.log]
       ELSE [nft |-> [Metadata |-> m.meta, Supply |-> supply], err |-> NilErr,
             log |-> ts \o m.log]

\* ------------------------------------------------------------ call frames
FacadeOp(name) ==
    [name |-> name, tokenIds |-> <<>>, tokenId |-> -1, amount |-> 0,
     addr |-> <<>>, addr2 |-> <<>>, approved |-> FALSE, key |-> 0]
NoOp == FacadeOp("none")

\* nonNil: the slice returned is not the nil slice.
NoRet == [set |-> FALSE, nfts |-> <<>>, nonNil |-> FALSE, nft |-> NilNft,
          meta |-> NilMeta, tx |-> NilTx, val |-> -1, err |-> NilErr]

NoOwned == [address |-> <<>>, maxId |-> -1, owners |-> <<>>, ids |-> <<>>,
            balances |-> <<>>, index |-> 0, metadatas |-> <<>>]
NoPrev == [id |-> -1, supply |-> -1]
\* The ids whose last returned supply prev keeps.
WatchedIds == {0}

TokenIds == 0..MaxTokenId
Amounts == {1}

IdleWorker == [pc |-> "idle", id |-> -1, res |-> NilResult, sent |-> 0]
Workers == 1..(MaxBatch + 1)

\* ----------------------------------------------------------- batch inputs
Iota(n) == [i \in 1..n |-> i - 1]
Rotate(s) == IF Len(s) = 0 THEN s ELSE <<s[Len(s)]>> \o SubSeq(s, 1, Len(s) - 1)
Shift(s, k) == [i \in 1..Len(s) |-> s[i] + k]
BatchInputs ==
    UNION {{Iota(n), Rotate(Iota(n)), Shift(Iota(n), InputOffset)} : n \in 0..MaxBatch}

\* --------------------------------------------------------- batch resolver
\* The argument the i-th goroutine (i counted from 0) is started with.
WorkerArg(tokenIds, i) == i

\* for i := 0; i < total; i++: the number of goroutines started.
LaunchBoundInclusive(total) == total + 1
LaunchBound(total) == total

\* Number of receives of the collection loop.
CollectTargetShort(total) == IF total > 0 THEN total - 1 ELSE 0
CollectTargetLong(total) == total + 1
CollectTarget(total) == total

KeepResultAll(res) == TRUE
KeepResult(res) == res.nft # NilNft
FilterErrors(rs) ==
    LET kept == SelectSeq(rs, KeepResult) IN [i \in 1..Len(kept) |-> kept[i].nft]

LessReversed(a, b) == a.Metadata.Id > b.Metadata.Id
Less(a, b) == a.Metadata.Id < b.Metadata.Id

RECURSIVE InsertSorted(_, _)
InsertSorted(s, x) ==
    IF Len(s) = 0 THEN <<x>>
    ELSE IF Less(x, Head(s)) THEN <<x>> \o s
    ELSE <<Head(s)>> \o InsertSorted(Tail(s), x)

SortSkipped(s) == s
RECURSIVE SortSliceStable(_)
SortSliceStable(s) ==
    IF Len(s) = 0 THEN <<>>
    ELSE InsertSorted(SortSliceStable(SubSeq(s, 1, Len(s) - 1)), s[Len(s)])

Total == Len(op.tokenIds)

CallFetchEditions ==
    /\ cpc = "idle"
    /\ \E tokenIds \in BatchInputs :
         /\ op' = [FacadeOp("fetchEditionsByTokenId") EXCEPT !.tokenIds = tokenIds]
         /\ cpc' = "launch"
         /\ launched' = 0
         /\ UNCHANGED <<privateKey, signerAddress, ret, log, txh, w, results, own>>
         /\ prev' = NoPrev

Launch ==
    /\ cpc = "launch"
    /\ launched < LaunchBound(Total)
    /\ w' = [w EXCEPT ![launched + 1] =
                [IdleWorker EXCEPT !.pc = "run", !.id = WorkerArg(op.tokenIds, launched)]]
    /\ launched' = launched + 1
    /\ UNCHANGED <<privateKey, signerAddress, cpc, op, ret, log, txh, results, own, prev>>

LaunchDone ==
    /\ cpc = "launch"
    /\ launched >= LaunchBound(Total)
    /\ cpc' = "collect"
    /\ UNCHANGED <<privateKey, signerAddress, op, ret, log, txh, launched, w, results, own, prev>>

WorkerGet(i) ==
    /\ w[i].pc = "run"
    /\ \E supplyOut \in SupplyOutcomes, uriOk \in BOOLEAN, storeOk \in BOOLEAN :
         LET g == Get(w[i].id, supplyOut, uriOk, storeOk) IN
         w' = [w EXCEPT ![i].pc = "send", ![i].res = [nft |-> g.nft, err |-> g.err]]
    /\ UNCHANGED <<privateKey, signerAddress, cpc, op, ret, log, txh, launched, results, own, prev>>

\* The collaborator call of worker i never returns.
WorkerHang(i) ==
    /\ w[i].pc = "run"
    /\ w' = [w EXCEPT ![i].pc = "hung"]
    /\ UNCHANGED <<privateKey, signerAddress, cpc, op, ret, log, txh, launched, results,
                   own, prev>>

Receive(i) ==
    /\ cpc = "collect"
    /\ Len(results) < CollectTarget(Total)
    /\ w[i].pc = "send"
    /\ results' = Append(results, w[i].res)
    /\ w' = [w EXCEPT ![i].pc = "done", ![i].sent = @ + 1]
    /\ UNCHANGED <<privateKey, signerAddress, cpc, op, ret, log, txh, launched, own, prev>>

FinishBatch ==
    /\ cpc = "collect"
    /\ Len(results) >= CollectTarget(Total)
    /\ ret' = [NoRet EXCEPT !.set = TRUE, !.nonNil = TRUE,
                            !.nfts = SortSliceStable(FilterErrors(results))]
    /\ cpc' = "done"
    /\ UNCHANGED <<privateKey, signerAddress, op, log, txh, launched, w, results, own, prev>>

\* The caller takes the returned value; the frame of the call is gone.
Return ==
    /\ cpc = "done"
    /\ cpc' = "idle"
    /\ op' = NoOp
    /\ ret' = NoRet
    /\ log' = <<>>
    /\ txh' = NilTx
    /\ launched' = 0
    /\ w' = [i \in Workers |-> IdleWorker]
    /\ results' = <<>>
    /\ own' = NoOwned
    /\ prev' = IF op.name = "Get" /\ ret.err = NilErr /\ op.tokenId \in WatchedIds
             THEN [id |-> op.tokenId, supply |-> ret.nft.Supply]
             ELSE NoPrev
    /\ UNCHANGED <<privateKey, signerAddress>>

GetSignerAddress == signerAddress

\* ------------------------------------------------------------------ GetAll
CountOutcomes == {-1} \cup (0..MaxMintable)    \* -1: the read fails

GetTotalCount(countOut) ==
    [val |-> countOut,
     err |-> IF countOut >= 0 THEN NilErr ELSE CallError("CallFailed"),
     log |-> <<EntryVal("NextTokenIdToMint", -1, countOut, countOut >= 0)>>]

\* tokenIds of GetAll: big.NewInt(i) for i from 0 below totalCount.
GetAllIdsFromOne(totalCount) == [i \in 1..totalCount |-> i]
GetAllIds(totalCount) == Iota(totalCount)

CallGetAll ==
    /\ cpc = "idle"
    /\ \E countOut \in CountOutcomes :
         LET c == GetTotalCount(countOut) IN
         /\ log' = c.log
         /\ IF c.err # NilErr
            THEN /\ op' = FacadeOp("GetAll")
                 /\ ret' = [NoRet EXCEPT !.set = TRUE, !.err = c.err]
                 /\ cpc' = "done"
            ELSE /\ op' = [FacadeOp("GetAll") EXCEPT !.tokenIds = GetAllIds(c.val)]
                 /\ ret' = NoRet
                 /\ cpc' = "launch"
    /\ launched' = 0
    /\ prev' = NoPrev
    /\ UNCHANGED <<privateKey, signerAddress, txh, w, results, own>>

\* ---------------------------------------------------------------- GetOwned
OwnedAddrStrings == {<<>>, [i \in 1..(2 * AddrLen) |-> "a"]}
OwnedCountOutcomes == {-1} \cup (0..MaxMintable)
\* Balances the chain answers: none or some.
Balances == {0, 1}
BalanceLists(n) == [1..n -> Balances]

\* What follows the batched balance query.
OwnedAfterBalancesIgnoreErr(err) == "ownedLoop"
OwnedAfterBalances(err) == IF err # NilErr THEN "done" ELSE "ownedLoop"

\* Whether the loop resolves an id of the balance response.
OwnedResolvesNonZero(balance) == balance > 0
OwnedResolves(balance) == TRUE

\* The loop index after an iteration whose Get returned err; n is the
\* length of the balance response.
OwnedNextIndexAbort(index, n, err) == IF err # NilErr THEN n ELSE index + 1
OwnedNextIndex(index, n, err) == index + 1

CallGetOwned ==
    /\ cpc = "idle"
    /\ \E address \in OwnedAddrStrings, maxOut \in OwnedCountOutcomes :
         LET addr == IF address = <<>> THEN AddressString(GetSignerAddress)
                     ELSE address
             ok == maxOut >= 0
         IN
         /\ op' = [FacadeOp("GetOwned") EXCEPT !.addr = address]
         /\ log' = <<EntryVal("NextTokenIdToMint", -1, maxOut, ok)>>
         /\ IF ~ok
            THEN /\ ret' = [NoRet EXCEPT !.set = TRUE, !.err = CallError("CallFailed")]
                 /\ cpc' = "done"
                 /\ own' = [NoOwned EXCEPT !.address = addr]
            ELSE /\ ret' = NoRet
                 /\ cpc' = "ownedBalances"
                 /\ own' = [NoOwned EXCEPT !.address = addr, !.maxId = maxOut,
                                           !.owners = [i \in 1..maxOut |-> HexToAddress(addr)],
                                           !.ids = Iota(maxOut)]
    /\ prev' = NoPrev
    /\ UNCHANGED <<privateKey, signerAddress, txh, launched, w, results>>

\* BalanceOfBatch: the chain answers one balance for each id asked, or fails.
OwnedBalances ==
    /\ cpc = "ownedBalances"
    /\ \/ /\ log' = log \o <<[Entry("BalanceOfBatch", Len(own.ids), NoAddr, NoAddr, FALSE)
                              EXCEPT !.val = Len(own.owners)]>>
          /\ cpc' = OwnedAfterBalances(CallError("CallFailed"))
          /\ ret' = IF OwnedAfterBalances(CallError("CallFailed")) = "done"
                    THEN [NoRet EXCEPT !.set = TRUE, !.err = CallError("CallFailed")]
                    ELSE NoRet
          /\ own' = own
       \/ \E balances \in BalanceLists(Len(own.ids)) :
            /\ log' = log \o <<[Entry("BalanceOfBatch", Len(own.ids), NoAddr, NoAddr, TRUE)
                                EXCEPT !.val = Len(own.owners)]>>
            /\ cpc' = OwnedAfterBalances(NilErr)
            /\ ret' = NoRet
            /\ own' = [own EXCEPT !.balances = balances]
    /\ UNCHANGED <<privateKey, signerAddress, op, txh, launched, w, results, prev>>

\* One iteration of for index, balance := range balances.
OwnedStep ==
    /\ cpc = "ownedLoop"
    /\ own.index < Len(own.balances)
    /\ LET index == own.index + 1
           balance == own.balances[index]
       IN IF ~OwnedResolves(balance)
          THEN /\ own' = [own EXCEPT !.index = index]
               /\ log' = log
          ELSE \E supplyOut \in SupplyOutcomes, uriOk \in BOOLEAN, storeOk \in BOOLEAN :
                 LET g == Get(own.ids[index], supplyOut, uriOk, storeOk)
                     metadataOwner == [Metadata |-> g.nft.Metadata,
                                       Supply |-> g.nft.Supply,
                                       Owner |-> own.address,
                                       QuantityOwned |-> balance]
                 IN /\ log' = log \o g.log
                    /\ own' = [own EXCEPT
                                 !.index = OwnedNextIndex(own.index, Len(own.balances), g.err),
                                 !.metadatas = IF g.err = NilErr
                                               THEN Append(@, metadataOwner) ELSE @]
    /\ UNCHANGED <<privateKey, signerAddress, cpc, op, ret, txh, launched, w, results, prev>>

OwnedReturn ==
    /\ cpc = "ownedLoop"
    /\ own.index >= Len(own.balances)
    /\ ret' = [NoRet EXCEPT !.set = TRUE, !.nonNil = TRUE, !.nfts = own.metadatas]
    /\ cpc' = "done"
    /\ UNCHANGED <<privateKey, signerAddress, op, log, txh, launched, w, results, own, prev>>

\* ------------------------------------------------------ single-item reads
CallGet ==
    /\ cpc = "idle"
    /\ \E tokenId \in TokenIds :
         /\ \E supplyOut \in SupplyOutcomes, uriOk \in BOOLEAN, storeOk \in BOOLEAN :
              LET g == Get(tokenId, supplyOut, uriOk, storeOk) IN
              /\ ret' = [NoRet EXCEPT !.set = TRUE, !.nft = g.nft, !.err = g.err]
              /\ log' = g.log
         /\ op' = [FacadeOp("Get") EXCEPT !.tokenId = tokenId]
         /\ cpc' = "done"
         /\ UNCHANGED <<privateKey, signerAddress, txh, launched, w, results, own, prev>>

CallGetTokenMetadata ==
    /\ cpc = "idle"
    /\ \E tokenId \in TokenIds :
         /\ \E uriOk \in BOOLEAN, storeOk \in BOOLEAN :
              LET m == getTokenMetadata(tokenId, uriOk, storeOk) IN
              /\ ret' = [NoRet EXCEPT !.set = TRUE, !.meta = m.meta, !.err = m.err]
              /\ log' = m.log
         /\ op' = [FacadeOp("getTokenMetadata") EXCEPT !.tokenId = tokenId]
         /\ cpc' = "done"
         /\ UNCHANGED <<privateKey, signerAddress, txh, launched, w, results, own>>
         /\ prev' = NoPrev

\* balOut: the balance the chain answers, -1 when the read fails.
BalanceOf(address, tokenId, balOut) ==
    [val |-> IF balOut >= 0 THEN balOut ELSE -1,
     err |-> IF balOut >= 0 THEN NilErr ELSE CallError("CallFailed"),
     log |-> <<Entry("BalanceOf", tokenId, HexToAddress(address), NoAddr, balOut >= 0)>>]

\* apprOut: 1 approved, 0 not approved, -1 the read fails.
IsApproved(address, operator, apprOut) ==
    [val |-> IF apprOut >= 0 THEN apprOut ELSE -1,
     err |-> IF apprOut >= 0 THEN NilErr ELSE CallError("CallFailed"),
     log |-> <<Entry("IsApprovedForAll", -1, HexToAddress(address),
                     HexToAddress(operator), apprOut >= 0)>>]

CallBalanceOf ==
    /\ cpc = "idle"
    /\ \E address \in AddrStrings, tokenId \in TokenIds :
         /\ \E balOut \in SupplyOutcomes :
              LET b == BalanceOf(address, tokenId, balOut) IN
              /\ ret' = [NoRet EXCEPT !.set = TRUE, !.val = b.val, !.err = b.err]
              /\ log' = b.log
         /\ op' = [FacadeOp("BalanceOf") EXCEPT !.addr = address, !.tokenId = tokenId]
         /\ cpc' = "done"
         /\ UNCHANGED <<privateKey, signerAddress, txh, launched, w, results, own>>
         /\ prev' = NoPrev

\* The operator strings tried: empty, no hex string, a well-formed address.
OperatorStrings == {<<>>, <<"x">>, [i \in 1..(2 * AddrLen) |-> "a"]}

CallIsApproved ==
    /\ cpc = "idle"
    /\ \E address \in AddrStrings, operator \in OperatorStrings :
         /\ \E apprOut \in {-1, 0, 1} :
              LET b == IsApproved(address, operator, apprOut) IN
              /\ ret' = [NoRet EXCEPT !.set = TRUE, !.val = b.val, !.err = b.err]
              /\ log' = b.log
         /\ op' = [FacadeOp("IsApproved") EXCEPT !.addr = address, !.addr2 = operator]
         /\ cpc' = "done"
         /\ UNCHANGED <<privateKey, signerAddress, txh, launched, w, results, own>>
         /\ prev' = NoPrev

\* ------------------------------------------------------------ signer state
\* 0 is a key string that does not parse; k > 0 parses to key k.
processPrivateKey(keyString) ==
    [err |-> IF keyString = 0 THEN CallError("InvalidKey") ELSE NilErr,
     pKey |-> keyString,
     publicAddress |-> AddressOfKey(keyString)]

\* A SetPrivateKey that stores what processPrivateKey gave back before it
\* looks at the error.
SetPrivateKeyStoreFirst(keyString) ==
    LET p == processPrivateKey(keyString) IN
    [err |-> IF p.err # NilErr THEN CallError("NoSignerError") ELSE NilErr,
     privateKey |-> p.pKey, signerAddress |-> p.publicAddress]

SetPrivateKey(keyString) ==
    LET p == processPrivateKey(keyString) IN
    IF p.err # NilErr
    THEN [err |-> CallError("NoSignerError"), privateKey |-> privateKey,
          signerAddress |-> signerAddress]
    ELSE [err |-> NilErr, privateKey |-> p.pKey, signerAddress |-> p.publicAddress]

CallSetPrivateKey ==
    /\ cpc = "idle"
    /\ \E keyString \in KeyStrings :
         /\ LET r == SetPrivateKey(keyString) IN
              /\ privateKey' = r.privateKey
              /\ signerAddress' = r.signerAddress
              /\ ret' = [NoRet EXCEPT !.set = TRUE, !.err = r.err]
         /\ op' = [FacadeOp("SetPrivateKey") EXCEPT !.key = keyString]
         /\ cpc' = "done"
         /\ UNCHANGED <<log, txh, launched, w, results, own>>
         /\ prev' = NoPrev

\* The signing function getSigner returns, as the binding runs it: it reads
\* the chain id, then signs with whatever key is stored; it makes no check
\* that a key is stored.  Signing with the nil key cannot yield a signature:
\* nilKeyOut is how that attempt ends ("SubmitFailed": an error comes back,
\* "panic": the call unwinds).
getSigner(key, nilKeyOut) ==
    [log |-> <<Entry("ChainID", -1, NoAddr, NoAddr, TRUE)>>,
     err |-> IF key = NoKey THEN CallError(nilKeyOut) ELSE NilErr]

getTxOptions == [From |-> GetSignerAddress, Signer |-> privateKey]

\* ---------------------------------------------------- state-changing calls
SubmitOutcomes == {"early", "send", "ok"}
NilKeyOutcomes == {"SubmitFailed", "panic"}

\* The generated binding (Chain Writer submit): submitOut "early" fails before
\* the transaction is signed, "send" fails sending the signed transaction.
ChainWriterSubmit(method, opts, id, a1, a2, submitOut, nilKeyOut) ==
    LET sig == getSigner(opts.Signer, nilKeyOut)
        err == IF submitOut = "early" THEN CallError("SubmitFailed")
               ELSE IF sig.err # NilErr THEN sig.err
               ELSE IF submitOut = "send" THEN CallError("SubmitFailed")
               ELSE NilErr
    IN [tx |-> IF err = NilErr THEN 1 ELSE NilTx,
        err |-> err,
        log |-> <<Entry(method, id, a1, a2, err = NilErr)>>
                \o (IF submitOut = "early" THEN <<>> ELSE sig.log)]

\* The confirmation wait (Chain Writer awaitConfirmation).
awaitTx(hash, awaitOk) ==
    [tx |-> IF awaitOk THEN hash ELSE NilTx,
     err |-> IF awaitOk THEN NilErr ELSE CallError("ConfirmationFailed"),
     log |-> <<Entry("awaitTx", hash, NoAddr, NoAddr, awaitOk)>>]

Transfer(to, tokenId, amount, submitOut, nilKeyOut) ==
    ChainWriterSubmit("SafeTransferFrom", getTxOptions, tokenId, GetSignerAddress,
                      HexToAddress(to), submitOut, nilKeyOut)

Burn(tokenId, amount, submitOut, nilKeyOut) ==
    ChainWriterSubmit("Burn", getTxOptions, tokenId, GetSignerAddress, NoAddr,
                      submitOut, nilKeyOut)

SetApprovalForAll(operator, approved, submitOut, nilKeyOut) ==
    ChainWriterSubmit("SetApprovalForAll", getTxOptions, -1, HexToAddress(operator),
                      NoAddr, submitOut, nilKeyOut)

\* if tx, err := ...; err != nil { return nil, err } else { return awaitTx(...) }
TxNextPcAlwaysAwait(sub) == "await"
TxNextPc(sub) == IF sub.err # NilErr THEN "done" ELSE "await"

\* A panic inside the submit unwinds the call before its if statement: the
\* call returns nothing and, unrecovered, the process ends there.
TxSubmitted(sub) ==
    /\ log' = sub.log
    /\ txh' = sub.tx
    /\ cpc' = IF sub.err.kind = "panic" THEN "panic" ELSE TxNextPc(sub)
    /\ ret' = IF sub.err.kind # "panic" /\ TxNextPc(sub) = "done"
              THEN [NoRet EXCEPT !.set = TRUE, !.tx = NilTx, !.err = sub.err]
              ELSE NoRet
    /\ UNCHANGED <<privateKey, signerAddress, launched, w, results, own>>
    /\ prev' = NoPrev

CallTransfer ==
    /\ cpc = "idle"
    /\ \E to \in AddrStrings, tokenId \in TokenIds, amount \in Amounts :
         /\ op' = [FacadeOp("Transfer") EXCEPT !.addr = to, !.tokenId = tokenId,
                                               !.amount = amount]
         /\ \E submitOut \in SubmitOutcomes, nilKeyOut \in NilKeyOutcomes :
              TxSubmitted(Transfer(to, tokenId, amount, submitOut, nilKeyOut))

CallBurn ==
    /\ cpc = "idle"
    /\ \E tokenId \in TokenIds, amount \in Amounts :
         /\ op' = [FacadeOp("Burn") EXCEPT !.tokenId = tokenId, !.amount = amount]
         /\ \E submitOut \in SubmitOutcomes, nilKeyOut \in NilKeyOutcomes :
              TxSubmitted(Burn(tokenId, amount, submitOut, nilKeyOut))

CallSetApprovalForAll ==
    /\ cpc = "idle"
    /\ \E operator \in AddrStrings, approved \in BOOLEAN :
         /\ op' = [FacadeOp("SetApprovalForAll") EXCEPT !.addr = operator,
                                                        !.approved = approved]
         /\ \E submitOut \in SubmitOutcomes, nilKeyOut \in NilKeyOutcomes :
              TxSubmitted(SetApprovalForAll(operator, approved, submitOut, nilKeyOut))

AwaitTx ==
    /\ cpc = "await"
    /\ \E awaitOk \in BOOLEAN :
         LET a == awaitTx(txh, awaitOk) IN
         /\ log' = log \o a.log
         /\ ret' = [NoRet EXCEPT !.set = TRUE, !.tx = a.tx, !.err = a.err]
    /\ cpc' = "done"
    /\ UNCHANGED <<privateKey, signerAddress, op, txh, launched, w, results, own, prev>>

\* ------------------------------------------------------------- the system
Init ==
    /\ privateKey = NoKey
    /\ signerAddress = ZeroAddress
    /\ cpc = "idle"
    /\ op = NoOp
    /\ ret = NoRet
    /\ log = <<>>
    /\ txh = NilTx
    /\ launched = 0
    /\ w = [i \in Workers |-> IdleWorker]
    /\ results = <<>>
    /\ own = NoOwned
    /\ prev = NoPrev

Next ==
    \/ CallFetchEditions
    \/ Launch
    \/ LaunchDone
    \/ \E i \in Workers : WorkerGet(i)
    \/ \E i \in Workers : Receive(i)
    \/ FinishBatch
    \/ CallGetAll
    \/ CallGetOwned
    \/ OwnedBalances
    \/ OwnedStep
    \/ OwnedReturn
    \/ CallGet
    \/ CallGetTokenMetadata
    \/ CallBalanceOf
    \/ CallIsApproved
    \/ CallSetPrivateKey
    \/ CallTransfer
    \/ CallBurn
    \/ CallSetApprovalForAll
    \/ AwaitTx
    \/ Return

Spec == Init /\ [][Next]_vars

\* The batch resolver alone, its goroutines scheduled fairly: a goroutine
\* that can run does run.  Whether a collaborator call returns is not the
\* scheduler's to decide: a worker's step is its call returning or hanging.
\* The steps of a batch. Without fairness a call that never returns is the
\* behaviour in which WorkerGet is never taken; under fairness it is the
\* WorkerHang step.
BatchNext ==
    \/ CallGetAll
    \/ Launch
    \/ LaunchDone
    \/ \E i \in Workers : WorkerGet(i)
    \/ \E i \in Workers : WorkerHang(i)
    \/ \E i \in Workers : Receive(i)
    \/ FinishBatch
    \/ Return

FairSpec ==
    /\ Init
    /\ [][BatchNext]_vars
    /\ WF_vars(Launch)
    /\ WF_vars(LaunchDone)
    /\ \A i \in Workers : WF_vars(WorkerGet(i) \/ WorkerHang(i))
    /\ \A i \in Workers : WF_vars(Receive(i))
    /\ WF_vars(FinishBatch)

\* ================================================================ claims
BatchOp == op.name = "fetchEditionsByTokenId"
BatchDone == BatchOp /\ cpc = "done"

OutIds == [k \in 1..Len(ret.nfts) |-> ret.nfts[k].Metadata.Id]
InputIds == {op.tokenIds[i] : i \in 1..Total}
ResolvedIds == {w[i].id : i \in {j \in Workers : w[j].pc # "idle"}}
SucceededIdx == {i \in Workers : w[i].pc = "done" /\ w[i].res.err = NilErr}
FailedIdx == {i \in Workers : w[i].pc = "done" /\ w[i].res.err # NilErr}

StrictlyAscending(ids) == \A k \in 1..(Len(ids) - 1) : ids[k] < ids[k + 1]

\* Two results that arrived against the order of their ids.
ArrivedOutOfOrder ==
    \E j, k \in 1..Len(results) :
        /\ j < k
        /\ results[j].nft # NilNft
        /\ results[k].nft # NilNft
        /\ results[j].nft.Metadata.Id > results[k].nft.Metadata.Id

\* C1: over the ids [0..N) the batch resolver returns strictly ascending ids,
\* each of them a requested id whose resolution succeeded, none twice.
C1_AscendingSubsetOfSucceeded ==
    (BatchDone /\ op.tokenIds = Iota(Total)) =>
        /\ StrictlyAscending(OutIds)
        /\ \A k \in 1..Len(OutIds) :
              /\ OutIds[k] \in 0..(Total - 1)
              /\ \E i \in SucceededIdx : w[i].id = OutIds[k]
        /\ \A j, k \in 1..Len(OutIds) : j # k => OutIds[j] # OutIds[k]

C1_Witness ==
    /\ BatchDone
    /\ op.tokenIds = Iota(Total)
    /\ Total >= 2
    /\ Len(ret.nfts) >= 2
    /\ FailedIdx # {}
    /\ ArrivedOutOfOrder

\* The successful workers' items taken in ascending id order, read from the
\* workers themselves and not from the order in which their results arrived.
RECURSIVE AscendingNfts(_)
AscendingNfts(S) ==
    IF S = {} THEN <<>>
    ELSE LET i == CHOOSE x \in S : \A y \in S :
                      \/ w[x].id < w[y].id
                      \/ (w[x].id = w[y].id /\ x <= y)
         IN <<w[i].res.nft>> \o AscendingNfts(S \ {i})

\* C2: the returned sequence is fixed by the input and the per-id outcomes;
\* the order in which the workers hand over their results does not change it.
C2_OutputIndependentOfArrival ==
    BatchDone => ret.nfts = AscendingNfts(SucceededIdx)

C2_Witness ==
    /\ BatchDone
    /\ Total >= 2
    /\ ArrivedOutOfOrder
    /\ StrictlyAscending(OutIds)

\* C3: the ids handed to the Token Metadata Resolver are exactly the ids of
\* the input sequence, and the output holds ids of the input only.
C3_WorkersResolveInputIds ==
    BatchDone =>
        /\ ResolvedIds = InputIds
        /\ \A k \in 1..Len(OutIds) : OutIds[k] \in InputIds

\* C4: a failing resolution removes only its own id: every worker whose
\* resolution succeeded has its item in the output, every worker whose
\* resolution failed has none, and the error returned is nil, also when
\* every resolution failed.
C4_FailuresDropOnlyThemselves ==
    BatchDone =>
        /\ ret.err = NilErr
        /\ Len(ret.nfts) = Cardinality(SucceededIdx)
        /\ \A i \in SucceededIdx : \E k \in 1..Len(ret.nfts) : ret.nfts[k] = w[i].res.nft
        /\ \A i \in FailedIdx : \A k \in 1..Len(ret.nfts) : ret.nfts[k] # w[i].res.nft
        /\ (op.tokenIds = Iota(Total)) =>
              {OutIds[k] : k \in 1..Len(OutIds)} = {w[i].id : i \in SucceededIdx}
        /\ (SucceededIdx = {}) => ret.nfts = <<>>

C4_Witness ==
    /\ BatchDone
    /\ Total >= 2
    /\ results[1].err # NilErr
    /\ \E k \in 2..Len(results) : results[k].err = NilErr
    /\ Len(ret.nfts) >= 1

\* C5: the batch resolver called with no ids starts no worker, makes no
\* collaborator call and returns the empty sequence with a nil error.
C5_EmptyBatchDoesNothing ==
    (BatchOp /\ Total = 0) =>
        /\ launched = 0
        /\ \A i \in Workers : w[i] = IdleWorker
        /\ results = <<>>
        /\ log = <<>>
        /\ (cpc = "done" => ret.set /\ ret.nfts = <<>> /\ ret.err = NilErr)

C5_Witness == BatchDone /\ Total = 0 /\ ret.set

\* C6: exactly N workers are started, each hands over exactly one result,
\* and the resolver filters, sorts and returns only after all N results
\* have been received.
C6_CollectsExactlyN ==
    /\ \A i \in Workers : w[i].sent <= 1
    /\ BatchOp =>
          /\ Len(results) = Cardinality({i \in Workers : w[i].sent = 1})
          /\ Len(results) <= Total
          /\ Cardinality({i \in Workers : w[i].pc # "idle"}) = launched
          /\ launched <= Total
          /\ (cpc \in {"collect", "done"} => launched = Total)
          /\ (ret.set \/ cpc = "done") =>
                /\ Len(results) = Total
                /\ \A i \in 1..Total : w[i].pc = "done" /\ w[i].sent = 1
                /\ \A i \in Workers \ (1..Total) : w[i] = IdleWorker

C6_Witness ==
    /\ BatchDone
    /\ Total >= 2
    /\ FailedIdx # {}
    /\ SucceededIdx # {}
    /\ Len(results) = Total

CallsTo(name) == Cardinality({k \in 1..Len(log) : log[k].call = name})

\* C7: the Token Metadata Resolver reads the URI once; when that read fails
\* it returns NotFound with the requested id and makes no store call; when
\* the read succeeds it fetches from the store once and returns the store's
\* error (which is not NotFound) or the metadata.
C7_ResolverFailureModes ==
    (cpc = "done" /\ op.name = "getTokenMetadata") =>
        /\ Len(log) >= 1
        /\ log[1].call = "Uri"
        /\ log[1].id = op.tokenId
        /\ CallsTo("Uri") = 1
        /\ CallsTo("StorageGet") <= 1
        /\ ~log[1].ok =>
              /\ ret.err = NotFoundError(op.tokenId)
              /\ ret.meta = NilMeta
              /\ CallsTo("StorageGet") = 0
        /\ log[1].ok =>
              /\ Len(log) = 2
              /\ log[2].call = "StorageGet"
              /\ ~log[2].ok =>
                    /\ ret.err # NilErr
                    /\ ret.err.kind # "NotFound"
                    /\ ret.meta = NilMeta
              /\ log[2].ok => ret.err = NilErr /\ ret.meta = [Id |-> op.tokenId]
        /\ (ret.meta # NilMeta) <=> (ret.err = NilErr)

C7_Witness ==
    /\ cpc = "done"
    /\ op.name = "getTokenMetadata"
    /\ Len(log) = 2
    /\ ~log[2].ok
    /\ ret.err.kind = "MetadataUnavailable"

TxOps == {"Transfer", "Burn", "SetApprovalForAll"}
SubmitCalls == {"SafeTransferFrom", "Burn", "SetApprovalForAll"}
SubmitOf(name) == IF name = "Transfer" THEN "SafeTransferFrom" ELSE name
TxOp == op.name \in TxOps
Submits == Cardinality({k \in 1..Len(log) : log[k].call \in SubmitCalls})

\* C8: a state-changing call made while no key is configured fails with
\* SignerMissing before any submit, confirmation wait or other network call.
C8_SignerMissingBeforeAnyCall ==
    (TxOp /\ privateKey = NoKey /\ cpc \in {"await", "done", "panic"}) =>
        /\ ret.set
        /\ ret.err.kind = "SignerMissing"
        /\ log = <<>>

\* C9: a state-changing call submits once and then waits for confirmation at
\* most once; a failed submit is returned with a nil transaction and no wait;
\* after a successful submit the call returns only what the confirmation wait
\* returned; no call returns a transaction together with an error.  (A submit
\* that panics returns nothing and is followed by no wait.)
C9_SubmitThenAwait ==
    TxOp =>
        /\ Len(log) >= 1
        /\ log[1].call = SubmitOf(op.name)
        /\ Submits = 1
        /\ CallsTo("awaitTx") <= 1
        /\ (ret.set /\ ret.err # NilErr) => ret.tx = NilTx
        /\ cpc = "await" =>
              /\ ~ret.set
              /\ log[1].ok
              /\ txh # NilTx
              /\ CallsTo("awaitTx") = 0
        /\ cpc = "panic" =>
              /\ ~ret.set
              /\ ~log[1].ok
              /\ CallsTo("awaitTx") = 0
        /\ cpc = "done" =>
              /\ ret.set
              /\ ~log[1].ok =>
                    /\ CallsTo("awaitTx") = 0
                    /\ ret.tx = NilTx
                    /\ ret.err.kind = "SubmitFailed"
              /\ log[1].ok =>
                    /\ log[Len(log)].call = "awaitTx"
                    /\ log[Len(log)].id = txh
                    /\ log[Len(log)].ok => ret.tx = txh /\ ret.err = NilErr
                    /\ ~log[Len(log)].ok =>
                          ret.tx = NilTx /\ ret.err.kind = "ConfirmationFailed"

C9_Witness ==
    /\ TxOp
    /\ cpc = "done"
    /\ log[1].ok
    /\ ~log[Len(log)].ok
    /\ ret.err.kind = "ConfirmationFailed"

\* common.IsHexAddress: an optional 0x, then exactly 2 * AddrLen hex digits.
IsHexAddress(s) ==
    LET t == IF has0xPrefix(s) THEN SubSeq(s, 3, Len(s)) ELSE s
    IN Len(t) = 2 * AddrLen /\ \A i \in 1..Len(t) : HexVal(t[i]) <= 15

AddrOps == {"Transfer", "SetApprovalForAll", "BalanceOf", "IsApproved"}
HasBadAddress ==
    /\ op.name \in AddrOps
    /\ \/ ~IsHexAddress(op.addr)
       \/ (op.name = "IsApproved" /\ ~IsHexAddress(op.addr2))

\* C10: a facade call given an address string that does not parse returns an
\* error and makes no contract call or read.
C10_BadAddressRejected ==
    (HasBadAddress /\ cpc \in {"await", "done", "panic"}) =>
        /\ ret.set
        /\ ret.err # NilErr
        /\ log = <<>>

\* C11: Get returns an error as soon as one of its collaborator calls fails
\* (total-supply read, URI read, storage fetch) and makes no call after it.
C11_GetSurfacesFirstError ==
    (cpc = "done" /\ op.name = "Get") =>
        \A k \in 1..Len(log) : ~log[k].ok => (ret.err # NilErr /\ k = Len(log))

GetAllOp == op.name = "GetAll"

\* C12: GetAll fails only when the total-count read fails, and then starts
\* no worker and returns a nil result; when the read answers N it hands
\* exactly the ids 0..N-1 to the batch resolver and returns a nil error.
C12_GetAllFailsOnlyOnEnumeration ==
    GetAllOp =>
        /\ Len(log) = 1
        /\ log[1].call = "NextTokenIdToMint"
        /\ ~log[1].ok =>
              /\ cpc = "done"
              /\ ret.set /\ ret.err # NilErr
              /\ ~ret.nonNil /\ ret.nfts = <<>>
              /\ launched = 0
              /\ \A i \in Workers : w[i] = IdleWorker
              /\ results = <<>>
        /\ log[1].ok =>
              /\ op.tokenIds = Iota(log[1].val)
              /\ ResolvedIds \subseteq 0..(log[1].val - 1)
              /\ cpc \in {"collect", "done"} => ResolvedIds = 0..(log[1].val - 1)
              /\ cpc = "done" => ret.set /\ ret.err = NilErr /\ ret.nonNil

C12_Witness ==
    /\ GetAllOp
    /\ cpc = "done"
    /\ log[1].ok
    /\ log[1].val >= 2
    /\ FailedIdx # {}
    /\ ret.err = NilErr

OwnedOp == op.name = "GetOwned"
OwnedOk == OwnedOp /\ cpc = "done" /\ ret.err = NilErr
CallsToId(name, id) ==
    Cardinality({k \in 1..Len(log) : log[k].call = name /\ log[k].id = id})
\* The Get of id failed: its URI read or its storage fetch did.
OwnedIdFailed(id) ==
    \E k \in 1..Len(log) :
        log[k].call \in {"Uri", "StorageGet"} /\ log[k].id = id /\ ~log[k].ok
OwnedIdOk(id) == ~OwnedIdFailed(id)
OwnedIds == {id \in 0..(own.maxId - 1) : TRUE}

\* C13: GetOwned returns the ids of the balance response (0..maxId-1) whose
\* resolution succeeded, in the order of the response, each once; a failing
\* id is skipped and the ids after it are still resolved.
C13_OwnedIsOrderedSubsequence ==
    OwnedOk =>
        /\ Len(own.balances) = own.maxId
        /\ \A id \in OwnedIds : CallsToId("Uri", id) = 1
        /\ OutIds = SelectSeq(Iota(own.maxId), OwnedIdOk)
        /\ StrictlyAscending(OutIds)

C13_Witness ==
    /\ OwnedOk
    /\ own.maxId = 2
    /\ OwnedIdFailed(0)
    /\ OutIds = <<1>>

\* C14: GetOwned resolves every id of the balance response, zero balance or
\* not; each item carries the balance returned for its id and the queried
\* address (the signer's address when the address given is empty).
C14_OwnedCarriesBalanceAndOwner ==
    OwnedOk =>
        /\ \A id \in OwnedIds : CallsToId("TotalSupply", id) = 1 /\ CallsToId("Uri", id) = 1
        /\ \A id \in OwnedIds :
              OwnedIdOk(id) => \E k \in 1..Len(ret.nfts) : ret.nfts[k].Metadata.Id = id
        /\ \A k \in 1..Len(ret.nfts) :
              /\ ret.nfts[k].Metadata.Id \in OwnedIds
              /\ ret.nfts[k].QuantityOwned = own.balances[ret.nfts[k].Metadata.Id + 1]
              /\ ret.nfts[k].Owner =
                    IF op.addr = <<>> THEN AddressString(signerAddress) ELSE op.addr

C14_Witness ==
    /\ OwnedOk
    /\ own.maxId = 2
    /\ own.balances = <<0, 1>>
    /\ Len(ret.nfts) = 2
    /\ ret.nfts[1].QuantityOwned = 0

SupplyRead(id) ==
    LET k == CHOOSE j \in 1..Len(log) : log[j].call = "TotalSupply" /\ log[j].id = id
    IN IF log[k].ok THEN log[k].val ELSE 0

\* C15: every Get reads the total supply itself, once, and the Supply it
\* returns is what that read answered, whatever an earlier Get returned;
\* the same holds for each item of GetOwned.
C15_SupplyReadEveryGet ==
    /\ (cpc = "done" /\ op.name = "Get") =>
          /\ CallsToId("TotalSupply", op.tokenId) = 1
          /\ log[1].call = "TotalSupply"
          /\ ret.err = NilErr => ret.nft.Supply = SupplyRead(op.tokenId)
    /\ OwnedOk =>
          /\ CallsTo("TotalSupply") = own.maxId
          /\ \A k \in 1..Len(ret.nfts) :
                /\ CallsToId("TotalSupply", ret.nfts[k].Metadata.Id) = 1
                /\ ret.nfts[k].Supply = SupplyRead(ret.nfts[k].Metadata.Id)

C15_Witness ==
    /\ cpc = "done"
    /\ op.name = "Get"
    /\ ret.err = NilErr
    /\ log[1].ok
    /\ prev.id = op.tokenId
    /\ prev.supply # ret.nft.Supply

SomeWorkerHung == \E i \in Workers : w[i].pc = "hung"

\* C16: under fair scheduling a batch whose collaborator calls all return
\* does return, with every worker finished; a batch one of whose workers
\* hangs in a collaborator call never returns.
C16_BatchReturnsUnlessHung ==
    /\ (cpc \in {"launch", "collect"}) ~> (cpc = "done" \/ SomeWorkerHung)
    /\ [](SomeWorkerHung => (cpc \in {"launch", "collect"} /\ ~ret.set))
    /\ [](cpc = "done" => \A i \in Workers : w[i].pc \in {"idle", "done"})

C16_Witness ==
    /\ cpc = "collect"
    /\ Total >= 2
    /\ SomeWorkerHung
    /\ Len(results) = Total - 1

\* C17: a Get whose total-supply read fails while its URI read and storage
\* fetch succeed returns the item with Supply 0 and no error; Get fails, and
\* an id is missing from a GetAll or GetOwned result, exactly when the URI
\* read or the storage fetch of that id failed.
C17_SupplyFailureIsNotAnError ==
    /\ (cpc = "done" /\ op.name = "Get") =>
          /\ log[1].call = "TotalSupply"
          /\ (ret.err # NilErr) <=> OwnedIdFailed(op.tokenId)
          /\ (~log[1].ok /\ OwnedIdOk(op.tokenId)) =>
                /\ ret.err = NilErr
                /\ ret.nft = [Metadata |-> [Id |-> op.tokenId], Supply |-> 0]
    /\ \A i \in FailedIdx : w[i].res.err.kind \in {"NotFound", "MetadataUnavailable"}
    /\ OwnedOk =>
          \A id \in OwnedIds :
              (\E k \in 1..Len(ret.nfts) : ret.nfts[k].Metadata.Id = id) <=> OwnedIdOk(id)

C17_Witness ==
    /\ cpc = "done"
    /\ op.name = "Get"
    /\ ~log[1].ok
    /\ ret.err = NilErr
    /\ ret.nft.Supply = 0

\* C18: GetOwned stops at a failing mintable-id read (no balance query, no
\* resolution) and at a failing balance query (no resolution), returning the
\* error and a nil result; otherwise it returns a nil error after exactly
\* one balance query whose owner and id lists have length maxId.
C18_OwnedFailsFastOnEnumeration ==
    OwnedOp =>
        /\ Len(log) >= 1
        /\ log[1].call = "NextTokenIdToMint"
        /\ CallsTo("NextTokenIdToMint") = 1
        /\ CallsTo("BalanceOfBatch") <= 1
        /\ ~log[1].ok =>
              /\ Len(log) = 1
              /\ cpc = "done" /\ ret.set /\ ret.err # NilErr
              /\ ~ret.nonNil /\ ret.nfts = <<>>
        /\ Len(log) >= 2 =>
              /\ log[2].call = "BalanceOfBatch"
              /\ log[2].id = log[1].val
              /\ log[2].val = log[1].val
              /\ ~log[2].ok =>
                    /\ Len(log) = 2
                    /\ cpc = "done" /\ ret.set /\ ret.err # NilErr
                    /\ ~ret.nonNil /\ ret.nfts = <<>>
        /\ (cpc = "done" /\ log[1].ok) =>
              /\ CallsTo("BalanceOfBatch") = 1
              /\ log[2].ok => ret.err = NilErr /\ ret.nonNil

C18_Witness ==
    /\ OwnedOp
    /\ cpc = "done"
    /\ Len(log) = 2
    /\ ~log[2].ok
    /\ log[1].val >= 1
    /\ ret.err # NilErr

KeyPairConsistent ==
    signerAddress = IF privateKey = NoKey THEN ZeroAddress ELSE AddressOfKey(privateKey)

SetPrivateKeyStep == cpc = "idle" /\ op'.name = "SetPrivateKey"

\* C19: a SetPrivateKey that fails returns NoSignerError and leaves the key
\* and the signer address as they were; one that succeeds stores the key and
\* the address of that key together; no other step touches them, so the
\* stored address always belongs to the stored key.
C19_SignerStateAtomic ==
    /\ [][/\ SetPrivateKeyStep /\ ret'.err # NilErr =>
               /\ ret'.err.kind = "NoSignerError"
               /\ privateKey' = privateKey
               /\ signerAddress' = signerAddress
          /\ SetPrivateKeyStep /\ ret'.err = NilErr =>
               /\ privateKey' # NoKey
               /\ signerAddress' = AddressOfKey(privateKey')
          /\ ~SetPrivateKeyStep =>
               /\ privateKey' = privateKey
               /\ signerAddress' = signerAddress]_vars
    /\ []KeyPairConsistent

C19_Witness ==
    /\ cpc = "done"
    /\ op.name = "SetPrivateKey"
    /\ ret.err.kind = "NoSignerError"
    /\ privateKey # NoKey
    /\ signerAddress = AddressOfKey(privateKey)

====
